---- MODULE Spec2Model ----
(***************************************************************************)
(* Model of rust-practice:                                                 *)
(*   editdist/src/lib.rs  edit_dist (DP matrix) and traceback (cigar)      *)
(*   src/lib.rs           return_failure_function_table, kmp, kmp_wrapper  *)
(* Strings are sequences of one-character strings (the code reads them as  *)
(* bytes); the cigar is the sequence of characters of the Rust String.     *)
(***************************************************************************)
EXTENDS Integers, Sequences, FiniteSets, TLC

VARIABLES
    pc,          \* position in the running function
    s1, s2,      \* edit_dist arguments
    dp_mat,      \* edit_dist: the DP matrix, 0-based [row][col]
    i, j,        \* loop indices (edit_dist fill loop, then traceback's own i, j)
    alignment,   \* traceback: operations pushed so far (end-to-start order)
    cigar,       \* traceback: cigar built so far
    prev_char,   \* traceback: encoder's previous character
    count,       \* traceback: encoder's run length
    k,           \* traceback: number of characters of alignment.chars().rev() consumed
    result,      \* value returned by edit_dist / kmp
    needle, haystack,  \* kmp arguments
    jump_table,  \* kmp: failure function table (0-based)
    i0           \* kmp: start index of the current candidate match

vars == <<pc, s1, s2, dp_mat, i, j, alignment, cigar, prev_char, count, k,
          result, needle, haystack, jump_table, i0>>

\* ---------------------------------------------------------------- bounds
MaxLen == 3
MaxNeedle == 5
MaxHay == 8

Alphabet == {"A", "C"}

\* all sequences over S of length 0..n
RECURSIVE SeqsUpTo(_, _)
SeqsUpTo(S, n) ==
    IF n = 0 THEN {<<>>}
    ELSE LET shorter == SeqsUpTo(S, n - 1)
         IN  shorter \cup {Append(s, c) : s \in {t \in shorter : Len(t) = n - 1}, c \in S}

\* ------------------------------------------------------------- helpers
\* 0-based read of a byte string
Byte(s, idx) == s[idx + 1]

\* vec![vec![0u32; cols]; rows]
ZeroMatrix(rows, cols) == [r \in 0..(rows - 1) |-> [c \in 0..(cols - 1) |-> 0]]

\* Vec::sort_by_key is stable: the first of the entries with the least key
\* ends up at index 0.  choices is a sequence of <<tag, key>>.
RECURSIVE SortedFirstFrom(_, _, _)
SortedFirstFrom(choices, idx, best) ==
    IF idx > Len(choices) THEN best
    ELSE SortedFirstFrom(choices, idx + 1,
                         IF choices[idx][2] < best[2] THEN choices[idx] ELSE best)

SortedFirst(choices) == SortedFirstFrom(choices, 2, choices[1])

\* match / mismatch penalty
Delta(a, b) == IF a # b THEN 1 ELSE 0

\* variant: the diagonal candidate without the mismatch penalty
FillChoices_NoDelta(mat, a, b, r, c) ==
    << <<0, mat[r - 1][c - 1]>>,
       <<1, mat[r - 1][c] + 1>>,
       <<2, mat[r][c - 1] + 1>> >>

\* the three candidate moves of the fill loop at cell (r, c); the u32 sums
\* stay below len(s1) + len(s2) + 1, far from the width of the type
FillChoices(mat, a, b, r, c) ==
    << <<0, mat[r - 1][c - 1] + Delta(Byte(a, r - 1), Byte(b, c - 1))>>,
       <<1, mat[r - 1][c] + 1>>,
       <<2, mat[r][c - 1] + 1>> >>

\* variant: the up and left cells attached to each other's letter
TraceChoices_Swapped(mat, r, c) ==
    << <<"M", mat[r - 1][c - 1]>>,
       <<"I", mat[r][c - 1]>>,
       <<"D", mat[r - 1][c]>> >>

\* the three candidate moves of traceback at interior cell (r, c)
TraceChoices(mat, r, c) ==
    << <<"M", mat[r - 1][c - 1]>>,
       <<"I", mat[r - 1][c]>>,
       <<"D", mat[r][c - 1]>> >>

\* format!("{}", n): decimal digits of n
DigitChar == <<"0", "1", "2", "3", "4", "5", "6", "7", "8", "9">>

RECURSIVE Decimal(_)
Decimal(n) ==
    IF n < 10 THEN <<DigitChar[n + 1]>>
    ELSE Decimal(n \div 10) \o <<DigitChar[(n % 10) + 1]>>

\* variant: the format arguments in the other order
Token_LetterFirst(n, c) == <<c>> \o Decimal(n)

\* format!("{}{}", count, prev_char)
Token(n, c) == Decimal(n) \o <<c>>

\* alignment.chars().rev(), 1-based position p
RevChar(al, p) == al[Len(al) - p + 1]

NoResult == [kind |-> "Pending", edit_dist |-> 0, cigar |-> <<>>, idx |-> 0]

\* ------------------------------------------------------------ edit_dist
Init ==
    /\ pc = "edit_dist"
    /\ s1 \in SeqsUpTo(Alphabet, MaxLen)
    /\ s2 \in SeqsUpTo(Alphabet, MaxLen)
    /\ dp_mat = <<>>
    /\ i = 0 /\ j = 0
    /\ alignment = <<>> /\ cigar = <<>> /\ prev_char = "" /\ count = 0 /\ k = 0
    /\ result = NoResult
    /\ needle = <<>> /\ haystack = <<>> /\ jump_table = <<>> /\ i0 = 0

\* lines 76-90: allocate, set row 0 to 0..=len(s2), set column 0 to the row index
InitMatrix ==
    /\ pc = "edit_dist"
    /\ LET zero == ZeroMatrix(Len(s1) + 1, Len(s2) + 1)
           row0 == [zero EXCEPT ![0] = [c \in 0..Len(s2) |-> c]]
       IN  dp_mat' = [r \in 0..Len(s1) |-> [row0[r] EXCEPT ![0] = r]]
    /\ i' = 1 /\ j' = 1
    /\ pc' = "fill"
    /\ UNCHANGED <<s1, s2, alignment, cigar, prev_char, count, k, result,
                   needle, haystack, jump_table, i0>>

\* lines 92-111: one iteration of the inner while loop
FillCell ==
    /\ pc = "fill"
    /\ i < Len(s1) + 1
    /\ j < Len(s2) + 1
    /\ dp_mat' = [dp_mat EXCEPT ![i][j] = SortedFirst(FillChoices(dp_mat, s1, s2, i, j))[2]]
    /\ j' = j + 1
    /\ UNCHANGED <<pc, s1, s2, i, alignment, cigar, prev_char, count, k, result,
                   needle, haystack, jump_table, i0>>

\* lines 89-92, 112: inner loop exhausted, next row
NextRow ==
    /\ pc = "fill"
    /\ i < Len(s1) + 1
    /\ ~(j < Len(s2) + 1)
    /\ i' = i + 1
    /\ j' = 1
    /\ UNCHANGED <<pc, s1, s2, dp_mat, alignment, cigar, prev_char, count, k, result,
                   needle, haystack, jump_table, i0>>

\* lines 115-117 and 17-20: outer loop exhausted, call traceback(&dp_mat)
CallTraceback ==
    /\ pc = "fill"
    /\ ~(i < Len(s1) + 1)
    /\ alignment' = <<>>
    /\ i' = Len(s1)          \* dp_mat.len() - 1
    /\ j' = Len(s2)          \* dp_mat[0].len() - 1
    /\ pc' = "trace"
    /\ UNCHANGED <<s1, s2, dp_mat, cigar, prev_char, count, k, result,
                   needle, haystack, jump_table, i0>>

\* variant: the top-row branch pushes the other edge's letter
TraceTopRow_PushD ==
    /\ pc = "trace"
    /\ ~(i = 0 /\ j = 0)
    /\ i = 0
    /\ alignment' = Append(alignment, "D")
    /\ j' = j - 1
    /\ UNCHANGED <<pc, s1, s2, dp_mat, i, cigar, prev_char, count, k, result,
                   needle, haystack, jump_table, i0>>

\* lines 26-28
TraceTopRow ==
    /\ pc = "trace"
    /\ ~(i = 0 /\ j = 0)
    /\ i = 0
    /\ alignment' = Append(alignment, "I")
    /\ j' = j - 1
    /\ UNCHANGED <<pc, s1, s2, dp_mat, i, cigar, prev_char, count, k, result,
                   needle, haystack, jump_table, i0>>

\* variant: the left-column branch decrements the index that is already 0
TraceLeftCol_DecJ ==
    /\ pc = "trace"
    /\ ~(i = 0 /\ j = 0)
    /\ i # 0
    /\ j = 0
    /\ alignment' = Append(alignment, "D")
    /\ j' = j - 1
    /\ UNCHANGED <<pc, s1, s2, dp_mat, i, cigar, prev_char, count, k, result,
                   needle, haystack, jump_table, i0>>

\* lines 29-31
TraceLeftCol ==
    /\ pc = "trace"
    /\ ~(i = 0 /\ j = 0)
    /\ i # 0
    /\ j = 0
    /\ alignment' = Append(alignment, "D")
    /\ i' = i - 1
    /\ UNCHANGED <<pc, s1, s2, dp_mat, j, cigar, prev_char, count, k, result,
                   needle, haystack, jump_table, i0>>

\* lines 40-48: the move made for the letter at the head of the sorted choices
MoveFor(letter, r, c) ==
    IF letter = "M" THEN <<r - 1, c - 1>>
    ELSE IF letter = "I" THEN <<r - 1, c>>
    ELSE IF letter = "D" THEN <<r, c - 1>>
    ELSE <<r, c>>

\* lines 32-49
TraceInterior ==
    /\ pc = "trace"
    /\ ~(i = 0 /\ j = 0)
    /\ i # 0
    /\ j # 0
    /\ LET first == SortedFirst(TraceChoices(dp_mat, i, j))
           to    == MoveFor(first[1], i, j)
       IN  /\ alignment' = Append(alignment, first[1])
           /\ i' = to[1]
           /\ j' = to[2]
    /\ UNCHANGED <<pc, s1, s2, dp_mat, cigar, prev_char, count, k, result,
                   needle, haystack, jump_table, i0>>

\* lines 24, 53-55: loop exit, start of the encoder; next().unwrap() on an
\* empty alignment panics
EncodeStart ==
    /\ pc = "trace"
    /\ i = 0 /\ j = 0
    /\ cigar' = <<>>
    /\ IF Len(alignment) = 0
       THEN /\ pc' = "panic"
            /\ UNCHANGED <<prev_char, count, k>>
       ELSE /\ prev_char' = RevChar(alignment, 1)
            /\ count' = 0
            /\ k' = 0
            /\ pc' = "encode"
    /\ UNCHANGED <<s1, s2, dp_mat, i, j, alignment, result,
                   needle, haystack, jump_table, i0>>

\* lines 56-64: one iteration of the encoder loop
EncodeStep ==
    /\ pc = "encode"
    /\ k < Len(alignment)
    /\ LET c == RevChar(alignment, k + 1)
       IN  /\ IF prev_char = c
              THEN /\ count' = count + 1
                   /\ UNCHANGED cigar
              ELSE /\ cigar' = cigar \o Token(count, prev_char)
                   /\ count' = 1
           /\ prev_char' = c
    /\ k' = k + 1
    /\ UNCHANGED <<pc, s1, s2, dp_mat, i, j, alignment, result,
                   needle, haystack, jump_table, i0>>

\* lines 65-67 and 115-118: last token, return Some(AlignResult)
EncodeReturn ==
    /\ pc = "encode"
    /\ ~(k < Len(alignment))
    /\ cigar' = cigar \o Token(count, prev_char)
    /\ result' = [kind |-> "Some", edit_dist |-> dp_mat[Len(s1)][Len(s2)],
                  cigar |-> cigar', idx |-> 0]
    /\ pc' = "done"
    /\ UNCHANGED <<s1, s2, dp_mat, i, j, alignment, prev_char, count, k,
                   needle, haystack, jump_table, i0>>

Next ==
    \/ InitMatrix
    \/ FillCell
    \/ NextRow
    \/ CallTraceback
    \/ TraceTopRow
    \/ TraceLeftCol
    \/ TraceInterior
    \/ EncodeStart
    \/ EncodeStep
    \/ EncodeReturn

Spec == Init /\ [][Next]_vars

\* ------------------------------------------------------------------ kmp
\* lines 23-31 of src/lib.rs: the inner while loop for position pos
RECURSIVE FailureInner(_, _, _, _)
FailureInner(nb, jt, pos, jj) ==
    IF jj > 0
    THEN IF Byte(nb, pos) = Byte(nb, jt[jj - 1])
         THEN [jt EXCEPT ![pos] = 1 + jt[pos - 1]]
         ELSE FailureInner(nb, jt, pos, jt[jt[jj - 1]])
    ELSE jt

\* lines 21-33: the outer while loop
RECURSIVE FailureOuter(_, _, _)
FailureOuter(nb, jt, pos) ==
    IF pos < Len(nb)
    THEN FailureOuter(nb, FailureInner(nb, jt, pos, pos), pos + 1)
    ELSE jt

\* lines 11-36
return_failure_function_table(nb) ==
    FailureOuter(nb, [x \in 0..(Len(nb) - 1) |-> 0], 1)

InitKmp ==
    /\ pc = "kmp_wrapper"
    /\ needle \in SeqsUpTo(Alphabet, MaxNeedle)
    /\ haystack \in SeqsUpTo(Alphabet, MaxHay)
    /\ jump_table = <<>>
    /\ i = 0 /\ j = 0 /\ i0 = 0
    /\ result = NoResult
    /\ s1 = <<>> /\ s2 = <<>> /\ dp_mat = <<>>
    /\ alignment = <<>> /\ cigar = <<>> /\ prev_char = "" /\ count = 0 /\ k = 0

\* lines 38-45 and 51-55: index the needle, enter kmp
kmp_wrapper ==
    /\ pc = "kmp_wrapper"
    /\ jump_table' = return_failure_function_table(needle)
    /\ i' = 0 /\ j' = 0 /\ i0' = 0
    /\ pc' = "kmp"
    /\ UNCHANGED <<s1, s2, dp_mat, alignment, cigar, prev_char, count, k, result,
                   needle, haystack>>

\* line 60: the loop condition
KmpLoopCond == Len(haystack) - i0 >= Len(needle)

\* lines 61-63
KmpFound ==
    /\ pc = "kmp"
    /\ KmpLoopCond
    /\ j = Len(needle)
    /\ result' = [kind |-> "Some", edit_dist |-> 0, cigar |-> <<>>, idx |-> i0]
    /\ pc' = "done"
    /\ UNCHANGED <<s1, s2, dp_mat, i, j, alignment, cigar, prev_char, count, k,
                   needle, haystack, jump_table, i0>>

\* lines 65-68
KmpMatch ==
    /\ pc = "kmp"
    /\ KmpLoopCond
    /\ j # Len(needle)
    /\ Byte(haystack, i) = Byte(needle, j)
    /\ j' = j + 1
    /\ i' = i + 1
    /\ UNCHANGED <<pc, s1, s2, dp_mat, alignment, cigar, prev_char, count, k, result,
                   needle, haystack, jump_table, i0>>

\* lines 69-73, 78
KmpMismatchAdvance ==
    /\ pc = "kmp"
    /\ KmpLoopCond
    /\ j # Len(needle)
    /\ Byte(haystack, i) # Byte(needle, j)
    /\ j = 0
    /\ j' = 0
    /\ i' = i + 1
    /\ i0' = i' - j'
    /\ UNCHANGED <<pc, s1, s2, dp_mat, alignment, cigar, prev_char, count, k, result,
                   needle, haystack, jump_table>>

\* lines 69, 74-78
KmpMismatchJump ==
    /\ pc = "kmp"
    /\ KmpLoopCond
    /\ j # Len(needle)
    /\ Byte(haystack, i) # Byte(needle, j)
    /\ j # 0
    /\ j' = jump_table[j - 1]
    /\ i0' = i - j'
    /\ UNCHANGED <<pc, s1, s2, dp_mat, i, alignment, cigar, prev_char, count, k, result,
                   needle, haystack, jump_table>>

\* lines 60, 82
KmpNotFound ==
    /\ pc = "kmp"
    /\ ~KmpLoopCond
    /\ result' = [kind |-> "None", edit_dist |-> 0, cigar |-> <<>>, idx |-> 0]
    /\ pc' = "done"
    /\ UNCHANGED <<s1, s2, dp_mat, i, j, alignment, cigar, prev_char, count, k,
                   needle, haystack, jump_table, i0>>

NextKmp ==
    \/ kmp_wrapper
    \/ KmpFound
    \/ KmpMatch
    \/ KmpMismatchAdvance
    \/ KmpMismatchJump
    \/ KmpNotFound

SpecKmp == InitKmp /\ [][NextKmp]_vars

\* the program runs to completion: it is sequential and never waits
SpecFair == Init /\ [][Next]_vars /\ WF_vars(Next)

\* ============================================================ properties
Prefix(s, n) == SubSeq(s, 1, n)

Min3(a, b, c) ==
    IF a <= b /\ a <= c THEN a ELSE IF b <= c THEN b ELSE c

\* Levenshtein distance, by recursion on the first symbols
RECURSIVE Lev(_, _)
Lev(a, b) ==
    IF a = <<>> THEN Len(b)
    ELSE IF b = <<>> THEN Len(a)
    ELSE Min3(Lev(Tail(a), Tail(b)) + (IF Head(a) = Head(b) THEN 0 ELSE 1),
              Lev(Tail(a), b) + 1,
              Lev(a, Tail(b)) + 1)

FillFinished == pc \in {"trace", "encode", "done", "panic"}

Returned == pc = "done" /\ result.kind = "Some"

\* value of a decimal digit character, -1 for any other character
DigitVal(ch) ==
    IF \E d \in 0..9 : DigitChar[d + 1] = ch
    THEN CHOOSE d \in 0..9 : DigitChar[d + 1] = ch
    ELSE -1

\* the cigar read back as a sequence of <<count, letter>> tokens; a letter
\* without a count in front of it reads as count -1
RECURSIVE CigarTokensFrom(_, _, _, _)
CigarTokensFrom(cg, pos, num, acc) ==
    IF pos > Len(cg) THEN (IF num = -1 THEN acc ELSE Append(acc, <<num, "">>))
    ELSE IF DigitVal(cg[pos]) >= 0
         THEN CigarTokensFrom(cg, pos + 1,
                              (IF num = -1 THEN 0 ELSE num * 10) + DigitVal(cg[pos]), acc)
         ELSE CigarTokensFrom(cg, pos + 1, -1, Append(acc, <<num, cg[pos]>>))

CigarTokens(cg) == CigarTokensFrom(cg, 1, -1, <<>>)

RECURSIVE SumCounts(_, _)
SumCounts(tokens, letters) ==
    IF tokens = <<>> THEN 0
    ELSE (IF Head(tokens)[2] \in letters THEN Head(tokens)[1] ELSE 0)
         + SumCounts(Tail(tokens), letters)

\* C1: once the fill loop is over the matrix has row 0 = 0..m, column 0 =
\* 0..n, every interior cell is the minimum of the three candidate costs and
\* equals the Levenshtein distance of the two prefixes, and the edit_dist
\* field that is returned is matrix[len(s1)][len(s2)] = Levenshtein(s1, s2).
C1_Levenshtein ==
    FillFinished =>
        /\ \A c \in 0..Len(s2) : dp_mat[0][c] = c
        /\ \A r \in 0..Len(s1) : dp_mat[r][0] = r
        /\ \A r \in 1..Len(s1) : \A c \in 1..Len(s2) :
              /\ dp_mat[r][c] = Min3(dp_mat[r - 1][c - 1]
                                        + (IF s1[r] # s2[c] THEN 1 ELSE 0),
                                     dp_mat[r - 1][c] + 1,
                                     dp_mat[r][c - 1] + 1)
              /\ dp_mat[r][c] = Lev(Prefix(s1, r), Prefix(s2, c))
        /\ Returned => /\ result.edit_dist = dp_mat[Len(s1)][Len(s2)]
                       /\ result.edit_dist = Lev(s1, s2)

C1_Witness ==
    /\ Returned
    /\ Len(s1) = MaxLen /\ Len(s2) = 2
    /\ result.edit_dist = 2

\* C2: edit_dist("", "") returns edit distance 0 and the empty cigar; it
\* does not abort.
C2_EmptyPairTotal ==
    (s1 = <<>> /\ s2 = <<>>) =>
        /\ pc # "panic"
        /\ pc = "done" => (result.kind = "Some" /\ result.edit_dist = 0
                           /\ result.cigar = <<>>)

\* C3: in the returned cigar the M and D counts add up to len(s1) and the M
\* and I counts add up to len(s2), for every pair that is not empty/empty.
C3_CigarLengths ==
    (Returned /\ ~(s1 = <<>> /\ s2 = <<>>)) =>
        /\ SumCounts(CigarTokens(result.cigar), {"M", "D"}) = Len(s1)
        /\ SumCounts(CigarTokens(result.cigar), {"M", "I"}) = Len(s2)

\* C6: edit_dist(s, s) for non-empty s returns distance 0 and the single
\* token "<len(s)>M".
C6_Identity ==
    (s1 = s2 /\ s1 # <<>>) =>
        /\ pc # "panic"
        /\ Returned =>
              /\ result.edit_dist = 0
              /\ CigarTokens(result.cigar) = << <<Len(s1), "M">> >>
              /\ Len(s1) = 3 => result.cigar = <<"3", "M">>

C6_Witness ==
    /\ Returned
    /\ s1 = s2
    /\ Len(s1) = MaxLen
    /\ Len(alignment) = MaxLen

\* C7: edit_dist("", s) returns len(s) and "<len(s)>I", edit_dist(s, "")
\* returns len(s) and "<len(s)>D"; on row 0 traceback only pushes I and
\* moves left, on column 0 it only pushes D and moves up.
C7_OneSidedEmpty ==
    /\ [](((s1 = <<>> /\ s2 # <<>>) =>
            /\ pc # "panic"
            /\ Returned =>
                 /\ result.edit_dist = Len(s2)
                 /\ CigarTokens(result.cigar) = << <<Len(s2), "I">> >>
                 /\ Len(s2) = 3 => result.cigar = <<"3", "I">>)
          /\ ((s2 = <<>> /\ s1 # <<>>) =>
            /\ pc # "panic"
            /\ Returned =>
                 /\ result.edit_dist = Len(s1)
                 /\ CigarTokens(result.cigar) = << <<Len(s1), "D">> >>
                 /\ Len(s1) = 3 => result.cigar = <<"3", "D">>))
    /\ [][(pc = "trace" /\ i = 0 /\ j > 0) =>
             (alignment' = Append(alignment, "I") /\ i' = 0 /\ j' = j - 1)]_vars
    /\ [][(pc = "trace" /\ j = 0 /\ i > 0) =>
             (alignment' = Append(alignment, "D") /\ j' = 0 /\ i' = i - 1)]_vars

C7_Witness ==
    /\ Returned
    /\ s1 = <<>>
    /\ Len(s2) = MaxLen
    /\ Len(alignment) = MaxLen

\* a traceback iteration is about to run
TraceIteration == pc = "trace" /\ ~(i = 0 /\ j = 0)

\* C8: every traceback step from (i, j) to (p, q) has
\* matrix[i][j] = matrix[p][q] + c, c = 0 for a diagonal step over equal
\* symbols and 1 for any other step; so the matrix value at the current cell
\* plus the cost of the steps taken is the edit distance.
C8_OptimalPath ==
    [][TraceIteration =>
         dp_mat[i][j] = dp_mat[i'][j']
                        + (IF i' = i - 1 /\ j' = j - 1 /\ s1[i] = s2[j]
                           THEN 0 ELSE 1)]_vars

C8_Witness ==
    /\ pc = "trace"
    /\ Len(alignment) >= 2
    /\ alignment[1] = "M" /\ alignment[2] # "M"
    /\ s1[Len(s1)] # s2[Len(s2)]

\* C9: at an interior cell traceback goes to the neighbour with the least
\* value among diagonal, up and left, ties broken Match > Insertion >
\* Deletion, and pushes M for the diagonal move, D for the move up and I for
\* the move left, as on the edges.
C9_InteriorMove ==
    [][(TraceIteration /\ i > 0 /\ j > 0) =>
         LET diag == dp_mat[i - 1][j - 1]
             up   == dp_mat[i - 1][j]
             left == dp_mat[i][j - 1]
             op   == IF diag <= left /\ diag <= up THEN "M"
                     ELSE IF left <= up THEN "I" ELSE "D"
         IN  /\ alignment' = Append(alignment, op)
             /\ op = "M" => (i' = i - 1 /\ j' = j - 1)
             /\ op = "D" => (i' = i - 1 /\ j' = j)
             /\ op = "I" => (i' = i /\ j' = j - 1)]_vars

\* C10: the traceback loop stays inside the matrix, each iteration lowers
\* i + j without taking an index below 0, it has pushed at most n + m
\* operations, and it ends at (0, 0).
C10_TracebackTerminates ==
    /\ [](pc = "trace" =>
            /\ i \in 0..Len(s1) /\ j \in 0..Len(s2)
            /\ Len(alignment) + i + j <= Len(s1) + Len(s2))
    /\ [][TraceIteration =>
            /\ i' + j' < i + j
            /\ i' >= 0 /\ j' >= 0
            /\ i' \in {i, i - 1} /\ j' \in {j, j - 1}
            /\ Len(alignment') = Len(alignment) + 1]_vars
    /\ (pc = "trace") ~> (pc \in {"encode", "panic"} /\ i = 0 /\ j = 0)

C10_Witness ==
    /\ pc = "encode"
    /\ i = 0 /\ j = 0
    /\ Len(s1) = MaxLen /\ Len(s2) = MaxLen
    /\ Len(alignment) > MaxLen

\* ------------------------------------------------------- kmp properties
\* needle occurs in haystack at 0-based offset off
OccursAt(n, h, off) ==
    /\ off + Len(n) <= Len(h)
    /\ \A x \in 1..Len(n) : h[off + x] = n[x]

\* length of the longest proper prefix of p that is also a suffix of p
LongestBorder(p) ==
    LET borders == {b \in 0..(Len(p) - 1) :
                       SubSeq(p, 1, b) = SubSeq(p, Len(p) - b + 1, Len(p))}
    IN  CHOOSE b \in borders : \A c \in borders : c <= b

\* C4: for a non-empty needle kmp_wrapper returns Some(k) exactly when k is
\* the least offset at which needle occurs in haystack, and None exactly
\* when needle does not occur.
C4_KmpFirstOccurrence ==
    (pc = "done" /\ needle # <<>>) =>
        LET offsets == {off \in 0..Len(haystack) : OccursAt(needle, haystack, off)}
        IN  /\ result.kind = "None" <=> offsets = {}
            /\ result.kind = "Some" =>
                  /\ result.idx \in offsets
                  /\ \A off \in offsets : result.idx <= off

\* C5: return_failure_function_table(needle) has one entry per position of
\* a non-empty needle, and entry x is the length of the longest proper
\* prefix of needle[0..=x] that is also its suffix.
C5_FailureFunction ==
    (pc \in {"kmp", "done"} /\ needle # <<>>) =>
        /\ DOMAIN jump_table = 0..(Len(needle) - 1)
        /\ \A x \in 0..(Len(needle) - 1) :
              jump_table[x] = LongestBorder(Prefix(needle, x + 1))

====
